---- MODULE Spec2Model ----
(***************************************************************************)
(* One call session of the Twilio <-> ElevenLabs bridge: the media-stream  *)
(* handlers and the wake debouncer of the server (src/unnamed/part_000),   *)
(* the speech-recognition client ElevenLabsClient and the agent client     *)
(* ElevenLabsAgentClient (src/src/elevenlabs.js).                          *)
(*                                                                         *)
(* Time is Date.now() in milliseconds.  Node runs every handler to its     *)
(* first await without interruption, so an action is one handler (with the *)
(* promise continuations it releases).  A timer fires when its delay has   *)
(* elapsed: time does not advance past a due timer, but events arriving in *)
(* the same millisecond may be handled before the timer callback.          *)
(***************************************************************************)
EXTENDS Integers, Sequences, FiniteSets, TLC

VARIABLES
  now,                \* Date.now()
  clock,              \* this specification's clock: [tick, horizon] in ms
  media,              \* the media websocket: "connected", "started", "closed"
  eleven,             \* the ElevenLabsClient of the call (state.eleven)
  elevenSent,         \* audio frames written to the speech-recognition socket
  frames,             \* number of media frames received so far (arrival tags)
  dropped,            \* history: frames discarded from the pending queue
  queued,             \* history: frames that waited in the pending queue
  lastWake,           \* lastWake.get(callSid) || 0
  partialWakeTimers,  \* partialWakeTimers.get(callSid)
  wakes,              \* history: the doWake invocations, in order
  lastEv,             \* history: the last committed or wake-matching transcript
                      \* handled within the past debounce window
  agentConfigured,    \* ELEVEN_AGENT_ID && ELEVEN_API_KEY
  agentClients,       \* agentClients.get(callSid): index into agents, 0 if absent
  agents,             \* the ElevenLabsAgentClient objects created so far
  procs,              \* the doWake invocations' positions, one per wake
  stream,             \* history: per agent, the reply the service is streaming
  subsequent,         \* history: calls of the subsequent-response callback
  nReplies,           \* number of replies the agent service has begun
  env,                \* the configuration: twilioClient, PUBLIC_BASE_URL
  callMeta,           \* callMeta.get(callSid), NoMeta if absent
  stateFrom,          \* state.from of the media websocket
  audioStore,         \* audioStore: the stored playback blobs
  blobTimers,         \* the pending deletion timers of the blobs
  tts,                \* the respondWithTts invocations' positions
  lastGet,            \* history: the last GET /audio/:id and its answer
  lastMetaWrite,      \* history: the last callMeta.set and the fields it names
  lastStt             \* history: the handler calls of the last speech-recognition
                      \* message (kept by the classifier specification only)

vars == <<now, clock, media, eleven, elevenSent, frames, dropped, queued, lastWake,
          partialWakeTimers, wakes, lastEv, agentConfigured, agentClients,
          agents, procs, stream, subsequent, nReplies, env, callMeta, stateFrom,
          audioStore, blobTimers, tts, lastGet, lastMetaWrite, lastStt>>

ttsVars == <<env, callMeta, stateFrom, audioStore, blobTimers, tts, lastGet,
             lastMetaWrite>>

audioVars == <<elevenSent, frames, dropped, queued>>
wakeVars  == <<lastWake, partialWakeTimers, wakes>>
agentVars == <<agentClients, agents, procs, stream, subsequent, nReplies>>

-----------------------------------------------------------------------------
(* Program constants *)

ThrottleMs  == 8000
DebounceMs  == 2500
AgentWaitMs == 15000
RetentionMs == 300000        \* 5 * 60 * 1000

(* Bounds of the model *)

Epoch            == 100000   \* Date.now() when the call starts
MaxTime          == 12000    \* the wake debouncer's clock stops this long after Epoch
MaxTimeAgent     == 16000    \* the agent turns' clock stops this long after Epoch
TicksPerDebounce == 5        \* clock steps per debounce window (wake debouncer)
TicksPerThrottle == 1        \* clock steps per throttle window (agent turns)
MaxFrames        == 4        \* media frames per call
MaxReplies       == 2        \* replies the agent service begins
MaxReplyLen      == 2        \* characters streamed in one reply
MaxPings         == 2        \* keep-alive pings the agent service sends
MaxTts           == 1        \* respondWithTts invocations
MaxTimeTts       == 300001   \* the playback clock stops this long after Epoch
TicksPerRetention == 2       \* clock steps per retention period (playback)

Null == "null"               \* JavaScript null (no reply text is spelled so)

-----------------------------------------------------------------------------
(* Texts are sequences of characters, so that toLowerCase and includes are *)
(* computed rather than assumed.                                           *)

Lower(c) == CASE c = "H" -> "h" [] c = "I" -> "i" [] c = "Y" -> "y"
              [] c = "O" -> "o" [] OTHER -> c

KeepCase(s) == s

toLowerCase(s) == [k \in 1..Len(s) |-> Lower(s[k])]

includes(s, p) ==
  \E k \in 0..(Len(s) - Len(p)) : SubSeq(s, k + 1, k + Len(p)) = p

SelectNonEmpty(list) == SelectSeq(list, LAMBDA p : p # <<>>)

MapLower(list) == [k \in 1..Len(list) |-> toLowerCase(list[k])]

\* WAKE_PHRASES (already split at commas) and WAKE_PHRASE of the environment
WAKE_PHRASES == <<>>
WAKE_PHRASE  == <<"H", "i">>

parseWakeList(rawList, defaultPhrase) ==
  IF rawList # <<>>
    THEN SelectNonEmpty(MapLower(rawList))
    ELSE SelectNonEmpty(<<toLowerCase(defaultPhrase)>>)

wakeList == parseWakeList(WAKE_PHRASES, WAKE_PHRASE)

\* this.wakePhrases of the ElevenLabsClient constructor
wakePhrases == SelectNonEmpty(MapLower(wakeList))

\* the `hit` of ElevenLabsClient.handleMessage
WakeHit(text) ==
  \E k \in 1..Len(wakePhrases) : includes(toLowerCase(text), wakePhrases[k])

TextA == <<"h", "i">>
TextB == <<"o", "h", " ", "H", "I", " ", "y", "o">>
TextC == <<"h", "o">>
SttTexts == {TextA, TextB, TextC}

SttTypes == {"partial_transcript", "committed_transcript",
             "committed_transcript_with_timestamps", "session_started"}

-----------------------------------------------------------------------------
(* ElevenLabsClient: the speech-recognition connection *)

NewEleven == [ws |-> "none", ready |-> FALSE, connectedPromise |-> "null",
              pending |-> <<>>]

\* connect(): one socket per pending promise
ElevenLabsClient_connect(e) ==
  IF e.connectedPromise # "null" THEN e
  ELSE [e EXCEPT !.ws = "connecting", !.connectedPromise = "pending"]

\* the order in which flushPending writes the queue
FlushOrderLifo(q) == [k \in 1..Len(q) |-> q[Len(q) + 1 - k]]

flushOrder(q) == q

\* flushPending(): the frames written, and the queue left
flushPending(e) ==
  IF ~e.ready \/ e.ws # "open"
    THEN [sent |-> <<>>, e |-> e]
    ELSE [sent |-> flushOrder(e.pending), e |-> [e EXCEPT !.pending = <<>>]]

\* close(): closes the socket only when it is OPEN
ElevenLabsClient_close(e) ==
  [e EXCEPT !.ws = IF @ = "open" THEN "closed" ELSE @,
            !.ready = FALSE, !.connectedPromise = "null", !.pending = <<>>]

-----------------------------------------------------------------------------
(* The wake debouncer: handleWake, its timer callback, and doWake *)

NoTimer == [set |-> FALSE, due |-> 0, text |-> <<>>]
NoStt == [on |-> FALSE, type |-> "", text |-> <<>>, transcript |-> <<>>,
          wake |-> <<>>]
NoEvent == [kind |-> "none", hit |-> FALSE, text |-> <<>>, at |-> 0, nw |-> 0,
            pending |-> FALSE, due |-> 0]

ThrottledSeconds(t, last) == t - last < ThrottleMs \div 1000

ThrottledInclusive(t, last) == t - last <= ThrottleMs

NeverThrottled(t, last) == FALSE

\* now - last < 8000
throttled(t, last) == t - last < ThrottleMs

DebounceFromFirst(t) ==
  IF partialWakeTimers.set THEN partialWakeTimers.due ELSE t + DebounceMs

\* setTimeout(..., 2500)
debounceDue(t) == t + DebounceMs

KeepPartialTimer(tm) == tm

\* clearTimeout and partialWakeTimers.delete on a committed transcript
clearPartialTimer(tm) == NoTimer

NewProc == [pc |-> "", agent |-> 0, sentAt |-> 0, result |-> Null, how |-> "",
            byTimer |-> 0, replyTurn |-> 0, hadStart |-> FALSE,
            streamed |-> "", say |-> ""]

-----------------------------------------------------------------------------
(* ElevenLabsAgentClient: the conversational-agent connection *)

NewAgent == [ws |-> "none", ready |-> FALSE, connectedPromise |-> "null",
             pendingResolve |-> 0, responseBuffer |-> "",
             firstResolved |-> FALSE, conversationId |-> Null,
             timers |-> {}, out |-> <<>>,
             pings |-> <<>>]        \* history: event ids of the pings received

\* history: the reply the last 'stop' completed, the channel that 'stop'
\* delivered it to, and the channel a following agent_response with the same
\* reply delivered it to
NoLast == [text |-> "", turn |-> 0, to |-> "", again |-> ""]

NoStream == [open |-> FALSE, turn |-> 0, text |-> "", last |-> NoLast]

\* connect(): returns the pending promise, or opens a socket (out marks
\* where the writes of the new socket begin)
ElevenLabsAgentClient_connect(ag) ==
  IF ag.connectedPromise # "null" THEN ag
  ELSE [ag EXCEPT !.ws = "connecting", !.connectedPromise = "pending",
                  !.out = Append(@, [type |-> "socket", turn |-> 0])]

SendInitNothing(ag) == ag

\* sendInitData(): dynamicVariables always has its four keys
sendInitData(ag) ==
  IF ag.ws # "open" THEN ag
  ELSE [ag EXCEPT !.out = Append(@, [type |-> "init", turn |-> 0])]

\* this.responseBuffer = '' of sendText
sendTextBuffer(buf) == ""

\* sendText() from `agent sendText` on: the user turn i is written, the wait
\* of turn i becomes the pending one, and its 15 s timer is set
sendTextBody(ag, i) ==
  [ag EXCEPT !.responseBuffer = sendTextBuffer(@),
             !.firstResolved = FALSE,
             !.out = Append(@, [type |-> "user_message", turn |-> i]),
             !.pendingResolve = i,
             !.timers = @ \cup {[id |-> i, due |-> now + AgentWaitMs]}]

\* this.responseBuffer || null
timeoutValue(buf) == IF buf # "" THEN buf ELSE Null

NoDelivery == [to |-> "none", waiter |-> 0, value |-> Null]

\* the setTimeout callback of sendText
sendTextTimeout(ag) ==
  IF ag.pendingResolve # 0
    THEN [ag |-> [ag EXCEPT !.pendingResolve = 0, !.firstResolved = TRUE],
          d  |-> [to |-> "wait", waiter |-> ag.pendingResolve,
                  value |-> timeoutValue(ag.responseBuffer)]]
    ELSE [ag |-> ag, d |-> NoDelivery]

\* the delivery of a complete reply: to the pending wait, else to the
\* subsequent-response callback (registered by doWake on every agent)
deliver(ag, response) ==
  IF ag.pendingResolve # 0
    THEN [ag |-> [ag EXCEPT !.pendingResolve = 0, !.firstResolved = TRUE],
          d  |-> [to |-> "wait", waiter |-> ag.pendingResolve, value |-> response]]
  ELSE IF ag.firstResolved
    THEN [ag |-> ag, d |-> [to |-> "subsequent", waiter |-> 0, value |-> response]]
    ELSE [ag |-> ag, d |-> NoDelivery]

PongIdZero(msg) == 0

\* the event_id of the pong: parsed.ping_event?.event_id
pongEventId(msg) == msg.id

\* handleMessage(raw) for a parsed message [type, part, text, id]
ElevenLabsAgentClient_handleMessage(ag, msg) ==
  CASE msg.type = "conversation_initiation_metadata" ->
         [ag |-> [ag EXCEPT !.conversationId = msg.id], d |-> NoDelivery]
    [] msg.type = "agent_chat_response_part" ->
         IF msg.part = "start"
           THEN [ag |-> [ag EXCEPT !.responseBuffer = ""], d |-> NoDelivery]
         ELSE IF msg.part = "delta" /\ msg.text # ""
           THEN [ag |-> [ag EXCEPT !.responseBuffer = @ \o msg.text],
                 d |-> NoDelivery]
         ELSE IF msg.part = "stop" /\ ag.responseBuffer # ""
           THEN LET r == deliver(ag, ag.responseBuffer)
                IN  [ag |-> [r.ag EXCEPT !.responseBuffer = ""], d |-> r.d]
           ELSE [ag |-> ag, d |-> NoDelivery]
    [] msg.type = "agent_response" ->
         IF msg.text # "" THEN deliver(ag, msg.text)
         ELSE [ag |-> ag, d |-> NoDelivery]
    [] msg.type = "ping" ->
         [ag |-> [ag EXCEPT !.out = Append(@, [type |-> "pong",
                                               turn |-> pongEventId(msg)])],
          d |-> NoDelivery]
    [] OTHER -> [ag |-> ag, d |-> NoDelivery]

\* close(): closes the socket only when it is OPEN
ElevenLabsAgentClient_close(ag) ==
  [ag EXCEPT !.ws = IF @ = "open" THEN "closed" ELSE @,
             !.ready = FALSE, !.connectedPromise = "null"]

\* the doWake invocations awaiting a connect() of agent a
Awaiting(ps, a) ==
  {k \in 1..Len(ps) : ps[k].agent = a /\ ps[k].pc \in {"connect", "sendconnect"}}

\* doWake after sendText resolved with value: lines 297-302
afterSendText(p, value, how, byTimer, turn, st) ==
  [p EXCEPT !.pc = "respond", !.result = value, !.how = how,
            !.byTimer = byTimer, !.replyTurn = turn,
            !.hadStart = st.open, !.streamed = st.text,
            !.say = IF value # Null /\ value # "" THEN "reply" ELSE "noresponse"]

\* doWake's catch: lines 303-305
afterError(p) == [p EXCEPT !.pc = "respond", !.say = "error"]

\* the continuations released when connect() resolves, in await order: each
\* awaiting doWake goes on into sendText
RECURSIVE resumeSendText(_, _, _, _)
resumeSendText(ag, ps, a, k) ==
  IF k > Len(ps) THEN [ag |-> ag, ps |-> ps]
  ELSE IF k \in Awaiting(ps, a)
    THEN resumeSendText(sendTextBody(ag, k),
                        [ps EXCEPT ![k] = [@ EXCEPT !.pc = "wait", !.sentAt = now]],
                        a, k + 1)
    ELSE resumeSendText(ag, ps, a, k + 1)

rejectAwaiting(ps, a) ==
  [k \in 1..Len(ps) |-> IF k \in Awaiting(ps, a) THEN afterError(ps[k]) ELSE ps[k]]

-----------------------------------------------------------------------------
(* The session registry (callMeta) and its writers *)

CallSid == "CA1"             \* the call of this session

NoMeta == [has |-> FALSE, from |-> Null, conferenceSid |-> Null,
           conferenceName |-> Null]

MetaFields == {"from", "conferenceSid", "conferenceName"}

\* a || b on values that are a string or missing
Or(a, b) == IF a # Null THEN a ELSE b

NoParams == [from |-> Null, conferenceSid |-> Null, conferenceName |-> Null]

NoMetaWrite == [by |-> "none", fields |-> {}]

FromValues == {"alice", "bob"}
ConfSids   == {"CF1", "CF2"}
ConfNames  == {"room"}

\* the customParameters a start event may carry
StartParams ==
  { [from |-> "bob", conferenceSid |-> Null, conferenceName |-> "room"],
    [from |-> Null, conferenceSid |-> "CF2", conferenceName |-> Null] }

\* POST /voice/inbound: the entry is set anew, conferenceSid null
Inbound(From) ==
  /\ callMeta' = [has |-> TRUE, from |-> From, conferenceSid |-> Null,
                  conferenceName |-> Or(CallSid, "conference")]
  /\ lastMetaWrite' = [by |-> "inbound", fields |-> MetaFields]
  /\ UNCHANGED <<lastStt, now, clock, media, eleven, audioVars, wakeVars, lastEv,
                 agentConfigured, agentVars, env, stateFrom, audioStore,
                 blobTimers, tts, lastGet>>

\* POST /conf-events: conferenceSid merged into an existing entry
ConfEvents(ConferenceSid) ==
  /\ IF callMeta.has
       THEN /\ callMeta' = [callMeta EXCEPT !.conferenceSid = ConferenceSid]
            /\ lastMetaWrite' = [by |-> "conf-events", fields |-> {"conferenceSid"}]
       ELSE UNCHANGED <<callMeta, lastMetaWrite>>
  /\ UNCHANGED <<lastStt, now, clock, media, eleven, audioVars, wakeVars, lastEv,
                 agentConfigured, agentVars, env, stateFrom, audioStore,
                 blobTimers, tts, lastGet>>

\* POST /add-participant, once calls.create has resolved for this call's
\* sid: the entry of the outbound leg is set anew.  fetched is the friendly
\* name of the conference, or Null if the fetch failed.
AddParticipant(to, conferenceSid, conferenceName, fetched) ==
  /\ env.twilioClient
  /\ LET actualConfName ==
           IF conferenceName # Null THEN conferenceName
           ELSE Or(fetched, conferenceSid)
     IN  callMeta' = [has |-> TRUE, from |-> to, conferenceSid |-> conferenceSid,
                      conferenceName |-> actualConfName]
  /\ lastMetaWrite' = [by |-> "add-participant", fields |-> MetaFields]
  /\ UNCHANGED <<lastStt, now, clock, media, eleven, audioVars, wakeVars, lastEv,
                 agentConfigured, agentVars, env, stateFrom, audioStore,
                 blobTimers, tts, lastGet>>

\* the registry part of the start handler: lines 181-196
startMeta(cp) ==
  LET from1 == Or(cp.from, stateFrom)
      from2 == IF from1 = "unknown" /\ callMeta.has
                 THEN Or(callMeta.from, from1) ELSE from1
      existing == callMeta
  IN  [from |-> from2,
       write |-> cp.conferenceSid # Null \/ cp.conferenceName # Null,
       meta |-> [has |-> TRUE, from |-> from2,
                 conferenceSid |-> Or(cp.conferenceSid, existing.conferenceSid),
                 conferenceName |-> Or(cp.conferenceName,
                                       Or(existing.conferenceName, CallSid))]]

-----------------------------------------------------------------------------
(* respondWithTts, the blob store and GET /audio/:id *)

NewTts == [pc |-> "", text |-> "", hadMeta |-> FALSE, synth |-> "none",
           id |-> <<>>, bytes |-> <<>>, storedAt |-> 0, meta |-> NoMeta,
           confSid |-> Null, confName |-> Null, attempts |-> <<>>,
           outcome |-> ""]

\* the texts doWake has spoken
TtsTexts == {"reply", "hello"}

NoGet == [key |-> <<>>, at |-> 0, status |-> 0, bytes |-> <<>>]

TtsIds == 1..Len(tts)

\* Buffer.from(resp.data): the audio the synthesis service returned for text
synthBytes(text) == <<"mp3", text>>

\* `${Date.now()}-${Math.random().toString(36).slice(2)}` for invocation k:
\* the random suffix is taken to be fresh
blobId(t, k) == <<ToString(t), "-", ToString(k)>>

\* `${PUBLIC_BASE_URL}/audio/${id}.mp3`: the path parameter of the blob's URL
audioUrl(id) == id \o <<".mp3">>

\* req.params.id.replace('.mp3', ''): the first '.mp3' is removed
audioKey(param) ==
  IF \E k \in 1..Len(param) : param[k] = ".mp3"
    THEN LET k == CHOOSE j \in 1..Len(param) :
                    param[j] = ".mp3" /\ \A i \in 1..(j - 1) : param[i] # ".mp3"
         IN  SubSeq(param, 1, k - 1) \o SubSeq(param, k + 1, Len(param))
    ELSE param

RetentionImmediate(t) == t

\* setTimeout(..., 5 * 60 * 1000)
retentionDue(t) == t + RetentionMs

\* audioStore.set(id, buf)
storeSet(store, id, buf) ==
  {b \in store : b.id # id} \cup {[id |-> id, bytes |-> buf]}

\* audioStore.delete(id): no effect when the blob is absent
storeDelete(store, id) == {b \in store : b.id # id}

TierAfterSkips(tier) == "twiml"

\* the tier tried when tier has failed
tierAfter(tier) == IF tier = "conference" THEN "participant" ELSE "twiml"

\* a tier's request is issued
attempt(t, tier) ==
  [t EXCEPT !.pc = tier,
            !.attempts = Append(@, [tier |-> tier, result |-> "pending"])]

\* the pending tier's request has ended with result
settle(t, result) ==
  [t EXCEPT !.attempts[Len(t.attempts)].result = result]

\* respondWithTts(callSid, text), to its first await
respondWithTts(text) ==
  /\ Len(tts) < MaxTts
  /\ tts' = Append(tts,
       IF ~env.twilioClient \/ ~env.PUBLIC_BASE_URL \/ CallSid = Null
         THEN [NewTts EXCEPT !.pc = "done", !.text = text,
                             !.hadMeta = callMeta.has, !.outcome = "skipped"]
         ELSE [NewTts EXCEPT !.pc = "synth", !.text = text,
                             !.hadMeta = callMeta.has, !.synth = "pending"])
  /\ UNCHANGED <<lastStt, now, clock, media, eleven, audioVars, wakeVars, lastEv,
                 agentConfigured, agentVars, env, callMeta, stateFrom,
                 audioStore, blobTimers, lastGet, lastMetaWrite>>

\* synthesizeElevenlabs resolved (ok) or threw: lines 347-360
TtsSynthDone(k, ok) ==
  /\ tts[k].pc = "synth"
  /\ IF ok
       THEN LET id == blobId(now, k)
                meta == callMeta
            IN  /\ audioStore' = storeSet(audioStore, id, synthBytes(tts[k].text))
                /\ blobTimers' = blobTimers \cup {[id |-> id, due |-> retentionDue(now)]}
                /\ tts' = [tts EXCEPT ![k] =
                     [@ EXCEPT !.pc = "lookup", !.synth = "ok", !.id = id,
                               !.bytes = synthBytes(tts[k].text),
                               !.storedAt = now, !.meta = meta,
                               !.confName = Or(meta.conferenceName, CallSid),
                               !.confSid = meta.conferenceSid]]
       ELSE /\ tts' = [tts EXCEPT ![k] =
                     [@ EXCEPT !.pc = "done", !.synth = "failed",
                               !.outcome = "rejected"]]
            /\ UNCHANGED <<audioStore, blobTimers>>
  /\ UNCHANGED <<lastStt, now, clock, media, eleven, audioVars, wakeVars, lastEv,
                 agentConfigured, agentVars, env, callMeta, stateFrom, lastGet,
                 lastMetaWrite>>

\* conferences.list resolved with res (a conference sid, or "none" for an
\* empty list) or threw ("fail"): lines 361-374, 389-391
TtsLookupDone(k, res) ==
  /\ tts[k].pc = "lookup"
  /\ LET found   == res \in ConfSids
         confSid == IF found THEN res ELSE tts[k].confSid
         t       == [tts[k] EXCEPT !.confSid = confSid]
     IN  /\ IF found
              THEN /\ callMeta' = [tts[k].meta EXCEPT !.has = TRUE,
                                                     !.conferenceSid = confSid]
                   /\ lastMetaWrite' = [by |-> "respondWithTts",
                                        fields |-> {"conferenceSid"}]
              ELSE UNCHANGED <<callMeta, lastMetaWrite>>
         /\ tts' = [tts EXCEPT ![k] =
                      IF confSid # Null THEN attempt(t, "conference")
                      ELSE attempt(t, "twiml")]
  /\ UNCHANGED <<lastStt, now, clock, media, eleven, audioVars, wakeVars, lastEv,
                 agentConfigured, agentVars, env, stateFrom, audioStore,
                 blobTimers, lastGet>>

\* a tier's request resolved (ok) or threw
tierDone(k, tier, ok) ==
  /\ tts[k].pc = tier
  /\ tts' = [tts EXCEPT ![k] =
       IF ok THEN [settle(@, "ok") EXCEPT !.pc = "done", !.outcome = "ok"]
       ELSE IF tier = "twiml"
         THEN [settle(@, "failed") EXCEPT !.pc = "done", !.outcome = "rejected"]
         ELSE attempt(settle(@, "failed"), tierAfter(tier))]
  /\ UNCHANGED <<lastStt, now, clock, media, eleven, audioVars, wakeVars, lastEv,
                 agentConfigured, agentVars, env, callMeta, stateFrom,
                 audioStore, blobTimers, lastGet, lastMetaWrite>>

\* conferences(confSid).update: lines 374-381
TtsConferenceDone(k, ok) == tierDone(k, "conference", ok)

\* conferences(confSid).participants(callSid).update: lines 381-391
TtsParticipantDone(k, ok) == tierDone(k, "participant", ok)

\* calls(callSid).update({ twiml }): lines 391-393
TtsTwimlDone(k, ok) == tierDone(k, "twiml", ok)

\* the deletion timer of a blob
BlobTimerFire(tm) ==
  /\ tm \in blobTimers
  /\ tm.due <= now
  /\ audioStore' = storeDelete(audioStore, tm.id)
  /\ blobTimers' = blobTimers \ {tm}
  /\ UNCHANGED <<lastStt, now, clock, media, eleven, audioVars, wakeVars, lastEv,
                 agentConfigured, agentVars, env, callMeta, stateFrom, tts,
                 lastGet, lastMetaWrite>>

\* GET /audio/:id
AudioGet(param) ==
  /\ LET key == audioKey(param)
         hit == {b \in audioStore : b.id = key}
     IN  lastGet' = IF hit = {}
                      THEN [key |-> key, at |-> now, status |-> 404, bytes |-> <<>>]
                      ELSE [key |-> key, at |-> now, status |-> 200,
                            bytes |-> (CHOOSE b \in hit : TRUE).bytes]
  /\ UNCHANGED <<lastStt, now, clock, media, eleven, audioVars, wakeVars, lastEv,
                 agentConfigured, agentVars, env, callMeta, stateFrom,
                 audioStore, blobTimers, tts, lastMetaWrite>>

-----------------------------------------------------------------------------
(* State after construction: the media websocket is connected, nothing else *)

InitCommon ==
  /\ now = Epoch
  /\ media = "connected"
  /\ eleven = NewEleven
  /\ elevenSent = <<>>
  /\ frames = 0
  /\ dropped = {}
  /\ queued = {}
  /\ lastWake = 0
  /\ partialWakeTimers = NoTimer
  /\ wakes = <<>>
  /\ lastEv = NoEvent
  /\ agentClients = 0
  /\ agents = <<>>
  /\ procs = <<>>
  /\ stream = <<>>
  /\ subsequent = <<>>
  /\ nReplies = 0
  /\ stateFrom = "unknown"
  /\ audioStore = {}
  /\ blobTimers = {}
  /\ tts = <<>>
  /\ lastGet = NoGet
  /\ lastMetaWrite = NoMetaWrite

\* every service configured, no registry entry, no classifier history
InitDefaults ==
  /\ env = [twilioClient |-> TRUE, PUBLIC_BASE_URL |-> TRUE]
  /\ callMeta = NoMeta
  /\ lastStt = NoStt

-----------------------------------------------------------------------------
(* doWake(state, text), to its first await *)

doWake(text, via) ==
  LET i == Len(wakes) + 1 IN
  /\ lastWake' = now
  /\ wakes' = Append(wakes, [at |-> now, text |-> text, via |-> via])
  /\ IF ~agentConfigured
       THEN /\ procs' = Append(procs, [NewProc EXCEPT !.pc = "respond",
                                                      !.say = "hello"])
            /\ UNCHANGED <<agentClients, agents, stream>>
     ELSE IF agentClients = 0
       THEN \* new ElevenLabsAgentClient, registered, then await agent.connect()
            /\ agents' = Append(agents, ElevenLabsAgentClient_connect(NewAgent))
            /\ agentClients' = Len(agents) + 1
            /\ stream' = Append(stream, NoStream)
            /\ procs' = Append(procs, [NewProc EXCEPT !.pc = "connect",
                                                      !.agent = Len(agents) + 1])
     ELSE LET a  == agentClients
              ag == agents[a]
          IN  /\ UNCHANGED <<agentClients, stream>>
              /\ IF (ag.ready /\ ag.ws = "open") \/ ag.connectedPromise = "resolved"
                   THEN \* sendText goes on at once
                        /\ agents' = [agents EXCEPT ![a] = sendTextBody(ag, i)]
                        /\ procs' = Append(procs, [NewProc EXCEPT !.pc = "wait",
                                                     !.agent = a, !.sentAt = now])
                   ELSE \* sendText awaits this.connect()
                        /\ agents' = [agents EXCEPT
                                        ![a] = ElevenLabsAgentClient_connect(ag)]
                        /\ procs' = Append(procs, [NewProc EXCEPT !.pc = "sendconnect",
                                                     !.agent = a])

\* handleWake(state, text, isCommitted)
handleWake(text, isCommitted) ==
  IF throttled(now, lastWake)
    THEN UNCHANGED <<wakeVars, agentClients, agents, procs, stream>>
  ELSE IF ~isCommitted
    THEN /\ partialWakeTimers' = [set |-> TRUE, due |-> debounceDue(now),
                                  text |-> text]
         /\ UNCHANGED <<lastWake, wakes, agentClients, agents, procs, stream>>
    ELSE /\ partialWakeTimers' = clearPartialTimer(partialWakeTimers)
         /\ doWake(text, "commit")

\* the setTimeout callback of handleWake
PartialTimerFire ==
  /\ partialWakeTimers.set
  /\ partialWakeTimers.due <= now
  /\ partialWakeTimers' = NoTimer
  /\ IF ~throttled(now, lastWake)
       THEN doWake(partialWakeTimers.text, "timer")
       ELSE UNCHANGED <<lastWake, wakes, agentClients, agents, procs, stream>>
  /\ UNCHANGED <<ttsVars, lastStt, now, clock, media, eleven, audioVars, lastEv, agentConfigured,
                 subsequent, nReplies>>

-----------------------------------------------------------------------------
(* The media websocket and the speech-recognition socket *)

\* ws.on('message') with event 'start' and customParameters cp: state.from
\* and the registry entry are updated, then eleven.connect()
MediaStartWith(cp) ==
  /\ media = "connected"
  /\ media' = "started"
  /\ LET m == startMeta(cp)
     IN  /\ stateFrom' = m.from
         /\ IF m.write
              THEN /\ callMeta' = m.meta
                   /\ lastMetaWrite' = [by |-> "start", fields |-> MetaFields]
              ELSE UNCHANGED <<callMeta, lastMetaWrite>>
  /\ eleven' = ElevenLabsClient_connect(eleven)
  /\ UNCHANGED <<lastStt, now, clock, audioVars, wakeVars, lastEv,
                 agentConfigured, agentVars, env, audioStore, blobTimers, tts,
                 lastGet>>

\* a start event without customParameters
MediaStart == MediaStartWith(NoParams)

\* sendAudio(buffer) for the frame tagged f
sendAudio(f) ==
  IF eleven.ready /\ eleven.ws = "open"
    THEN /\ elevenSent' = Append(elevenSent, f)
         /\ UNCHANGED <<eleven, queued>>
    ELSE /\ eleven' = [eleven EXCEPT !.pending = Append(@, f)]
         /\ queued' = queued \cup {f}
         /\ UNCHANGED elevenSent

\* ws.on('message') with event 'media'
MediaFrame ==
  /\ media = "started"
  /\ frames < MaxFrames
  /\ frames' = frames + 1
  /\ sendAudio(frames + 1)
  /\ UNCHANGED <<ttsVars, lastStt, now, clock, media, dropped, wakeVars, lastEv, agentConfigured,
                 agentVars>>

\* the socket's 'open' handler: ready, flushPending, resolve
SttOpen ==
  /\ eleven.ws = "connecting"
  /\ LET f == flushPending([eleven EXCEPT !.ws = "open", !.ready = TRUE])
     IN  /\ elevenSent' = elevenSent \o f.sent
         /\ eleven' = [f.e EXCEPT !.connectedPromise =
                                     IF @ = "pending" THEN "resolved" ELSE @]
  /\ UNCHANGED <<ttsVars, lastStt, now, clock, media, frames, dropped, queued, wakeVars, lastEv,
                 agentConfigured, agentVars>>

\* the socket's 'error' handler followed by its 'close' handler
SttError ==
  /\ eleven.ws = "connecting"
  /\ eleven' = [eleven EXCEPT !.ws = "closed", !.ready = FALSE,
                              !.connectedPromise = "null", !.pending = <<>>]
  /\ dropped' = dropped \cup {eleven.pending[k] : k \in 1..Len(eleven.pending)}
  /\ UNCHANGED <<ttsVars, lastStt, now, clock, media, elevenSent, frames, queued, wakeVars, lastEv,
                 agentConfigured, agentVars>>

\* the socket's 'close' handler
SttClose ==
  /\ eleven.ws = "open"
  /\ eleven' = [eleven EXCEPT !.ws = "closed", !.ready = FALSE,
                              !.connectedPromise = "null", !.pending = <<>>]
  /\ dropped' = dropped \cup {eleven.pending[k] : k \in 1..Len(eleven.pending)}
  /\ UNCHANGED <<ttsVars, lastStt, now, clock, media, elevenSent, frames, queued, wakeVars, lastEv,
                 agentConfigured, agentVars>>

\* ws.on('message') with event 'stop': eleven.close(), ws.close()
MediaStop ==
  /\ media = "started"
  /\ media' = "closing"
  /\ eleven' = ElevenLabsClient_close(eleven)
  /\ dropped' = dropped \cup {eleven.pending[k] : k \in 1..Len(eleven.pending)}
  /\ UNCHANGED <<ttsVars, lastStt, now, clock, elevenSent, frames, queued, wakeVars, lastEv,
                 agentConfigured, agentVars>>

\* ws.on('close'): eleven.close(), agent.close(), agentClients.delete
MediaClose ==
  /\ media # "closed"
  /\ media' = "closed"
  /\ eleven' = ElevenLabsClient_close(eleven)
  /\ dropped' = dropped \cup {eleven.pending[k] : k \in 1..Len(eleven.pending)}
  /\ IF agentClients # 0
       THEN /\ agents' = [agents EXCEPT
                            ![agentClients] = ElevenLabsAgentClient_close(@)]
            /\ agentClients' = 0
       ELSE UNCHANGED <<agents, agentClients>>
  /\ UNCHANGED <<ttsVars, lastStt, now, clock, elevenSent, frames, queued, wakeVars, lastEv,
                 agentConfigured, procs, stream, subsequent, nReplies>>

\* ElevenLabsClient.handleMessage(raw) for a message [message_type, text];
\* an unparseable message is the empty object: no type, no text
SttMessage(type, text) ==
  /\ eleven.ws = "open"
  /\ LET isCommitted == type \in {"committed_transcript",
                                  "committed_transcript_with_timestamps"}
         isPartial   == type = "partial_transcript"
         toWake      == text # <<>> /\ Len(wakePhrases) > 0
                          /\ (isCommitted \/ isPartial) /\ WakeHit(text)
     IN  /\ lastEv' = IF isCommitted \/ (isPartial /\ WakeHit(text))
                        THEN [kind |-> IF isCommitted THEN "commit" ELSE "partial",
                              hit |-> WakeHit(text), text |-> text, at |-> now,
                              nw |-> Len(wakes), pending |-> partialWakeTimers.set,
                              due |-> IF partialWakeTimers.set
                                        THEN partialWakeTimers.due ELSE 0]
                        ELSE lastEv
         /\ IF toWake
              THEN handleWake(text, isCommitted)
              ELSE UNCHANGED <<wakeVars, agentClients, agents, procs, stream>>
         /\ lastStt' = IF lastStt.on
                         THEN [on |-> TRUE, type |-> type, text |-> text,
                               transcript |-> IF text # <<>> THEN <<text>> ELSE <<>>,
                               wake |-> IF toWake
                                          THEN <<[text |-> text,
                                                  isCommitted |-> isCommitted]>>
                                          ELSE <<>>]
                         ELSE lastStt
  /\ UNCHANGED <<ttsVars, now, clock, media, eleven, audioVars, agentConfigured,
                 subsequent, nReplies>>

\* a message that is not JSON: parsed = {}, so no message_type and no text
SttUnparseable == SttMessage(Null, <<>>)

-----------------------------------------------------------------------------
(* The agent socket, its messages and the 15 s timers *)

\* the socket's 'open' handler: ready, sendInitData, resolve; the awaiting
\* doWake invocations then go on into sendText
AgentOpen(a) ==
  /\ agents[a].ws = "connecting"
  /\ LET opened == sendInitData([agents[a] EXCEPT !.ws = "open", !.ready = TRUE])
         r == resumeSendText(
                [opened EXCEPT !.connectedPromise =
                                  IF @ = "pending" THEN "resolved" ELSE @],
                procs, a, 1)
     IN  /\ agents' = [agents EXCEPT ![a] = r.ag]
         /\ procs' = r.ps
  /\ UNCHANGED <<ttsVars, lastStt, now, clock, media, eleven, audioVars, wakeVars, lastEv,
                 agentConfigured, agentClients, stream, subsequent, nReplies>>

\* the socket's 'error' handler followed by its 'close' handler: connect()
\* rejects, and the awaiting doWake invocations land in their catch
AgentError(a) ==
  /\ agents[a].ws = "connecting"
  /\ agents' = [agents EXCEPT ![a] = [@ EXCEPT !.ws = "closed", !.ready = FALSE,
                                                !.connectedPromise = "null"]]
  /\ procs' = rejectAwaiting(procs, a)
  /\ UNCHANGED <<ttsVars, lastStt, now, clock, media, eleven, audioVars, wakeVars, lastEv,
                 agentConfigured, agentClients, stream, subsequent, nReplies>>

\* the socket's 'close' handler
AgentClose(a) ==
  /\ agents[a].ws = "open"
  /\ agents' = [agents EXCEPT ![a] = [@ EXCEPT !.ws = "closed", !.ready = FALSE,
                                                !.connectedPromise = "null"]]
  /\ stream' = [stream EXCEPT ![a] = NoStream]
  /\ UNCHANGED <<ttsVars, lastStt, now, clock, media, eleven, audioVars, wakeVars, lastEv,
                 agentConfigured, agentClients, procs, subsequent, nReplies>>

\* what a delivery d of agent a does: it resolves the wait of a doWake, or
\* calls the subsequent-response callback.  turn and st say which reply
\* the service was sending (history only).
applyDelivery(a, d, how, byTimer, turn, st) ==
  /\ procs' = IF d.to = "wait"
                THEN [procs EXCEPT ![d.waiter] =
                        afterSendText(@, d.value, how, byTimer, turn, st)]
                ELSE procs
  /\ subsequent' = IF d.to = "subsequent"
                     THEN Append(subsequent, [agent |-> a, text |-> d.value,
                                              turn |-> turn, how |-> how])
                     ELSE subsequent

\* the user turns written to agent a's socket
SentTurns(a) ==
  {agents[a].out[k].turn : k \in {j \in 1..Len(agents[a].out) :
                                    agents[a].out[j].type = "user_message"}}

DeltaTexts == {"a", "b", ""}
ReplyTexts == {"ab", ""}

\* agent_chat_response_part, type start: the service begins a reply to turn
AgentStart(a, turn) ==
  /\ agents[a].ws = "open"
  /\ nReplies < MaxReplies
  /\ turn \in SentTurns(a)
  /\ LET r == ElevenLabsAgentClient_handleMessage(agents[a],
                [type |-> "agent_chat_response_part", part |-> "start",
                 text |-> "", id |-> 0])
     IN  agents' = [agents EXCEPT ![a] = r.ag]
  /\ stream' = [stream EXCEPT ![a] = [NoStream EXCEPT !.open = TRUE,
                                                       !.turn = turn]]
  /\ nReplies' = nReplies + 1
  /\ UNCHANGED <<ttsVars, lastStt, now, clock, media, eleven, audioVars, wakeVars, lastEv,
                 agentConfigured, agentClients, procs, subsequent>>

\* agent_chat_response_part, type delta
AgentDelta(a, text) ==
  /\ agents[a].ws = "open"
  /\ stream[a].open
  /\ Len(stream[a].text) < MaxReplyLen
  /\ LET r == ElevenLabsAgentClient_handleMessage(agents[a],
                [type |-> "agent_chat_response_part", part |-> "delta",
                 text |-> text, id |-> 0])
     IN  agents' = [agents EXCEPT ![a] = r.ag]
  /\ stream' = [stream EXCEPT ![a] = [@ EXCEPT !.text = @ \o text]]
  /\ UNCHANGED <<ttsVars, lastStt, now, clock, media, eleven, audioVars, wakeVars, lastEv,
                 agentConfigured, agentClients, procs, subsequent, nReplies>>

\* agent_chat_response_part, type stop
AgentStop(a) ==
  /\ agents[a].ws = "open"
  /\ stream[a].open
  /\ LET r == ElevenLabsAgentClient_handleMessage(agents[a],
                [type |-> "agent_chat_response_part", part |-> "stop",
                 text |-> "", id |-> 0])
     IN  /\ agents' = [agents EXCEPT ![a] = r.ag]
         /\ applyDelivery(a, r.d, "stop", 0, stream[a].turn, stream[a])
         /\ stream' = [stream EXCEPT ![a] =
                         [NoStream EXCEPT !.last = [text |-> stream[a].text,
                                                    turn |-> stream[a].turn,
                                                    to |-> r.d.to, again |-> ""]]]
  /\ UNCHANGED <<ttsVars, lastStt, now, clock, media, eleven, audioVars, wakeVars, lastEv,
                 agentConfigured, agentClients, nReplies>>

\* agent_response: the whole reply to turn in one message
AgentResponse(a, text, turn) ==
  /\ agents[a].ws = "open"
  /\ nReplies < MaxReplies
  /\ turn \in SentTurns(a)
  /\ LET r == ElevenLabsAgentClient_handleMessage(agents[a],
                [type |-> "agent_response", part |-> "", text |-> text, id |-> 0])
     IN  /\ agents' = [agents EXCEPT ![a] = r.ag]
         /\ applyDelivery(a, r.d, "agent_response", 0, turn, NoStream)
  /\ nReplies' = nReplies + 1
  /\ UNCHANGED <<ttsVars, lastStt, now, clock, media, eleven, audioVars, wakeVars, lastEv,
                 agentConfigured, agentClients, stream>>

\* agent_response carrying the whole text of the reply that the service has
\* just streamed as parts: the same reply, reported by both message kinds
AgentResponseOfStream(a) ==
  /\ agents[a].ws = "open"
  /\ ~stream[a].open
  /\ stream[a].last.text # ""
  /\ stream[a].last.again = ""
  /\ LET r == ElevenLabsAgentClient_handleMessage(agents[a],
                [type |-> "agent_response", part |-> "",
                 text |-> stream[a].last.text, id |-> 0])
     IN  /\ agents' = [agents EXCEPT ![a] = r.ag]
         /\ applyDelivery(a, r.d, "agent_response", 0, stream[a].last.turn,
                          NoStream)
         /\ stream' = [stream EXCEPT ![a] = [@ EXCEPT !.last.again = r.d.to]]
  /\ UNCHANGED <<ttsVars, lastStt, now, clock, media, eleven, audioVars, wakeVars, lastEv,
                 agentConfigured, agentClients, nReplies>>

\* event ids the agent service puts into its pings
PingIds == {7, 9}

RECURSIVE PingsOf(_)
PingsOf(n) == IF n = 0 THEN 0 ELSE Len(agents[n].pings) + PingsOf(n - 1)

\* a 'ping' message arrives on the open agent socket
AgentPing(a, id) ==
  /\ agents[a].ws = "open"
  /\ PingsOf(Len(agents)) < MaxPings
  /\ LET r == ElevenLabsAgentClient_handleMessage(
                [agents[a] EXCEPT !.pings = Append(@, id)],
                [type |-> "ping", part |-> "", text |-> "", id |-> id])
     IN  agents' = [agents EXCEPT ![a] = r.ag]
  /\ UNCHANGED <<ttsVars, lastStt, now, clock, media, eleven, audioVars, wakeVars, lastEv,
                 agentConfigured, agentClients, procs, stream, subsequent, nReplies>>

\* the 15 s timer that sendText set for turn tm.id
AgentTimerFire(a, tm) ==
  /\ tm \in agents[a].timers
  /\ tm.due <= now
  /\ LET r == sendTextTimeout([agents[a] EXCEPT !.timers = @ \ {tm}])
     IN  /\ agents' = [agents EXCEPT ![a] = r.ag]
         /\ applyDelivery(a, r.d, "timeout", tm.id, 0, stream[a])
  /\ UNCHANGED <<ttsVars, lastStt, now, clock, media, eleven, audioVars, wakeVars, lastEv,
                 agentConfigured, agentClients, stream, nReplies>>

-----------------------------------------------------------------------------
(* The clock *)

Deadlines ==
  (IF partialWakeTimers.set THEN {partialWakeTimers.due} ELSE {})
    \cup UNION {{tm.due : tm \in agents[a].timers} : a \in 1..Len(agents)}
    \cup {tm.due : tm \in blobTimers}

\* the next instant of the clock's grid
NextGrid == Epoch + (((now - Epoch) \div clock.tick) + 1) * clock.tick

\* time passes to the next grid instant, or to the next timer if that is due
\* earlier; it does not pass while a timer is due
Tick ==
  /\ now < Epoch + clock.horizon
  /\ \A d \in Deadlines : d > now
  /\ now' = IF \E d \in Deadlines : d < NextGrid
              THEN CHOOSE d \in Deadlines : \A e \in Deadlines : d <= e
              ELSE NextGrid
  /\ lastEv' = IF lastEv.kind # "none" /\ now' - lastEv.at > DebounceMs
                 THEN NoEvent ELSE lastEv
  /\ UNCHANGED <<ttsVars, lastStt, clock, media, eleven, audioVars, wakeVars, agentConfigured,
                 agentVars>>

-----------------------------------------------------------------------------
(* Specifications *)

AgentIds == 1..Len(agents)

\* The wake debouncer under every transcript.  No agent is configured:
\* handleWake and its timer read and write lastWake and partialWakeTimers
\* only, which no agent code touches.
Init ==
  /\ InitCommon
  /\ InitDefaults
  /\ clock = [tick |-> DebounceMs \div TicksPerDebounce, horizon |-> MaxTime]
  /\ agentConfigured = FALSE

Next ==
  \/ MediaStart
  \/ SttOpen
  \/ \E type \in SttTypes, text \in SttTexts : SttMessage(type, text)
  \/ PartialTimerFire
  \/ Tick

Spec == Init /\ [][Next]_vars

\* The agent turns: committed wakes, and an agent service that replies or
\* stays silent.
InitAgent ==
  /\ InitCommon
  /\ InitDefaults
  /\ clock = [tick |-> ThrottleMs \div TicksPerThrottle, horizon |-> MaxTimeAgent]
  /\ agentConfigured = TRUE

NextAgent ==
  \/ MediaStart
  \/ SttOpen
  \/ SttMessage("committed_transcript", TextA)
  \/ \E a \in AgentIds : AgentOpen(a)
  \/ \E a \in AgentIds : \E turn \in 1..Len(wakes) : AgentStart(a, turn)
  \/ \E a \in AgentIds : \E text \in DeltaTexts : AgentDelta(a, text)
  \/ \E a \in AgentIds : AgentStop(a)
  \/ \E a \in AgentIds : \E text \in ReplyTexts, turn \in 1..Len(wakes) :
       AgentResponse(a, text, turn)
  \/ \E a \in AgentIds : AgentResponseOfStream(a)
  \/ \E a \in AgentIds : \E tm \in agents[a].timers : AgentTimerFire(a, tm)
  \/ Tick

SpecAgent == InitAgent /\ [][NextAgent]_vars

\* The audio relay: frames, and a socket that opens, fails or closes.
InitAudio ==
  /\ InitCommon
  /\ InitDefaults
  /\ clock = [tick |-> ThrottleMs, horizon |-> 0]
  /\ agentConfigured = TRUE

NextAudio ==
  \/ MediaStart
  \/ MediaFrame
  \/ SttOpen
  \/ SttError
  \/ SttClose
  \/ MediaStop
  \/ MediaClose

SpecAudio == InitAudio /\ [][NextAudio]_vars

\* The life of the call's connections: wakes, sockets that open, fail or
\* close, and the end of the media stream.
InitLife ==
  /\ InitCommon
  /\ InitDefaults
  /\ clock = [tick |-> ThrottleMs \div TicksPerThrottle, horizon |-> MaxTimeAgent]
  /\ agentConfigured = TRUE

NextLife ==
  \/ MediaStart
  \/ SttOpen
  \/ SttClose
  \/ SttMessage("committed_transcript", TextA)
  \/ SttMessage("partial_transcript", TextA)
  \/ PartialTimerFire
  \/ \E a \in AgentIds : AgentOpen(a)
  \/ \E a \in AgentIds : AgentError(a)
  \/ \E a \in AgentIds : AgentClose(a)
  \/ \E a \in AgentIds : \E tm \in agents[a].timers : AgentTimerFire(a, tm)
  \/ MediaStop
  \/ MediaClose
  \/ Tick

SpecLife == InitLife /\ [][NextLife]_vars

\* The agent connection with the service's keep-alive pings: committed wake
\* transcripts send turns, the socket opens and closes, waits time out.
NextConn ==
  \/ MediaStart
  \/ SttOpen
  \/ SttMessage("committed_transcript", TextA)
  \/ \E a \in AgentIds : AgentOpen(a)
  \/ \E a \in AgentIds : AgentClose(a)
  \/ \E a \in AgentIds : \E tm \in agents[a].timers : AgentTimerFire(a, tm)
  \/ \E a \in AgentIds : \E id \in PingIds : AgentPing(a, id)
  \/ Tick

SpecConn == InitLife /\ [][NextConn]_vars

\* Playback: respondWithTts under every answer of the synthesis service
\* and the telephony control plane.  The registry entry is absent, or as an
\* inbound call and a conference event have left it.  No time passes.
TtsMetas ==
  { NoMeta,
    [has |-> TRUE, from |-> "alice", conferenceSid |-> Null,
     conferenceName |-> CallSid],
    [has |-> TRUE, from |-> "alice", conferenceSid |-> "CF1",
     conferenceName |-> CallSid] }

InitTts ==
  /\ InitCommon
  /\ clock = [tick |-> RetentionMs, horizon |-> 0]
  /\ agentConfigured = TRUE
  /\ env \in {[twilioClient |-> TRUE, PUBLIC_BASE_URL |-> b] : b \in BOOLEAN}
  /\ callMeta \in TtsMetas
  /\ lastStt = NoStt

NextTts ==
  \/ \E text \in TtsTexts : respondWithTts(text)
  \/ \E k \in TtsIds : \E ok \in BOOLEAN : TtsSynthDone(k, ok)
  \/ \E k \in TtsIds : \E res \in {"CF2", "none", "fail"} : TtsLookupDone(k, res)
  \/ \E k \in TtsIds : \E ok \in BOOLEAN : TtsConferenceDone(k, ok)
  \/ \E k \in TtsIds : \E ok \in BOOLEAN : TtsParticipantDone(k, ok)
  \/ \E k \in TtsIds : \E ok \in BOOLEAN : TtsTwimlDone(k, ok)
  \/ \E k \in TtsIds : AudioGet(audioUrl(tts[k].id))

SpecTts == InitTts /\ [][NextTts]_vars

\* The blob store over time: playbacks that succeed, fail or never end,
\* retrievals, and the deletion timers.
InitBlob ==
  /\ InitCommon
  /\ clock = [tick |-> RetentionMs \div TicksPerRetention, horizon |-> MaxTimeTts]
  /\ agentConfigured = TRUE
  /\ env = [twilioClient |-> TRUE, PUBLIC_BASE_URL |-> TRUE]
  /\ callMeta = [has |-> TRUE, from |-> "alice", conferenceSid |-> "CF1",
                 conferenceName |-> CallSid]
  /\ lastStt = NoStt

NextBlob ==
  \/ \E text \in TtsTexts : respondWithTts(text)
  \/ \E k \in TtsIds : \E ok \in BOOLEAN : TtsSynthDone(k, ok)
  \/ \E k \in TtsIds : TtsLookupDone(k, "none")
  \/ \E k \in TtsIds : \E ok \in BOOLEAN : TtsConferenceDone(k, ok)
  \/ \E k \in TtsIds : \E ok \in BOOLEAN : TtsParticipantDone(k, ok)
  \/ \E k \in TtsIds : \E ok \in BOOLEAN : TtsTwimlDone(k, ok)
  \/ \E k \in TtsIds : AudioGet(audioUrl(tts[k].id))
  \/ \E tm \in blobTimers : BlobTimerFire(tm)
  \/ Tick

SpecBlob == InitBlob /\ [][NextBlob]_vars

\* The registry: its writers in every order, with the conference lookup of
\* respondWithTts.
InitMeta ==
  /\ InitCommon
  /\ InitDefaults
  /\ clock = [tick |-> RetentionMs, horizon |-> 0]
  /\ agentConfigured = TRUE

NextMeta ==
  \/ \E From \in FromValues : Inbound(From)
  \/ \E sid \in ConfSids : ConfEvents(sid)
  \/ \E cp \in StartParams : MediaStartWith(cp)
  \/ \E name \in ConfNames \cup {Null}, fetched \in ConfNames \cup {Null} :
       AddParticipant("bob", "CF1", name, fetched)
  \/ \E text \in TtsTexts : respondWithTts(text)
  \/ \E k \in TtsIds : \E ok \in BOOLEAN : TtsSynthDone(k, ok)
  \/ \E k \in TtsIds : \E res \in ConfSids \cup {"none", "fail"} : TtsLookupDone(k, res)

SpecMeta == InitMeta /\ [][NextMeta]_vars

\* The transcript classifier: every kind of message, with and without text.
InitStt ==
  /\ InitCommon
  /\ env = [twilioClient |-> TRUE, PUBLIC_BASE_URL |-> TRUE]
  /\ callMeta = NoMeta
  /\ lastStt = [NoStt EXCEPT !.on = TRUE]
  /\ clock = [tick |-> ThrottleMs, horizon |-> ThrottleMs]
  /\ agentConfigured = FALSE

NextStt ==
  \/ MediaStart
  \/ SttOpen
  \/ \E type \in SttTypes, text \in SttTexts \cup {<<>>} : SttMessage(type, text)
  \/ SttUnparseable
  \/ PartialTimerFire
  \/ Tick

SpecStt == InitStt /\ [][NextStt]_vars

-----------------------------------------------------------------------------
(* Properties of the wake debouncer (specification Spec) *)

\* the transcript lastEv found the throttle window elapsed: no wake before
\* it, or the last one at least 8000 ms earlier
WindowElapsed ==
  lastEv.nw = 0 \/ lastEv.at - wakes[lastEv.nw].at >= ThrottleMs

\* the debounce timer is not waiting to run at this instant
TimerSettled == ~(partialWakeTimers.set /\ partialWakeTimers.due <= now)

\* C1: any two wakes dispatched for the call are at least 8000 ms apart,
\* dispatch to dispatch, and a committed wake-matching transcript arriving
\* less than 8000 ms after the last dispatched wake dispatches nothing.
C1_WakesThrottled ==
  /\ \A k \in 2..Len(wakes) : wakes[k].at - wakes[k - 1].at >= ThrottleMs
  /\ (lastEv.kind = "commit" /\ lastEv.hit /\ ~WindowElapsed)
       => Len(wakes) = lastEv.nw

\* two wakes exactly one throttle window apart
C1_Witness ==
  /\ Len(wakes) = 2
  /\ wakes[2].at - wakes[1].at = ThrottleMs

\* C2 as claimed: when a wake-matching partial has been the last
\* wake-matching transcript for 2500 ms (no commit followed it), exactly one
\* wake was dispatched after it, 2500 ms after it and with its text.  Stated
\* for runs whose wakes all came from the debounce timer.
C2_Claimed ==
  (/\ lastEv.kind = "partial"
   /\ \A k \in 1..Len(wakes) : wakes[k].via = "timer"
   /\ now = lastEv.at + DebounceMs
   /\ TimerSettled)
    => /\ Len(wakes) = lastEv.nw + 1
       /\ wakes[lastEv.nw + 1] = [at |-> lastEv.at + DebounceMs,
                                  text |-> lastEv.text, via |-> "timer"]

\* C2 amended: the same for a partial that arrives when at least 8000 ms
\* have passed since the last dispatched wake; a partial that arrives inside
\* the throttle window dispatches nothing.
C2_LastPartialFires ==
  (/\ lastEv.kind = "partial"
   /\ now = lastEv.at + DebounceMs
   /\ TimerSettled)
    => IF WindowElapsed
         THEN /\ Len(wakes) = lastEv.nw + 1
              /\ wakes[lastEv.nw + 1] = [at |-> lastEv.at + DebounceMs,
                                         text |-> lastEv.text, via |-> "timer"]
         ELSE Len(wakes) = lastEv.nw

\* the wake of the example: partials at 0 and 1000 ms, one wake at 3500 ms
\* with the second partial's text
C2_Witness ==
  /\ lastEv.kind = "partial"
  /\ lastEv.at = Epoch + 1000
  /\ lastEv.text = TextB
  /\ wakes = <<[at |-> Epoch + 3500, text |-> TextB, via |-> "timer"]>>

\* C3 as claimed: after a committed transcript that arrived while the
\* debounce timer was pending, the timer is no longer pending and the wake
\* dispatched next carries the committed text.
C3_Claimed ==
  (lastEv.kind = "commit" /\ lastEv.pending)
    => /\ ~partialWakeTimers.set
       /\ Len(wakes) > lastEv.nw
       /\ wakes[lastEv.nw + 1] = [at |-> lastEv.at, text |-> lastEv.text,
                                  via |-> "commit"]

\* C3 amended: the same for a committed transcript that contains a wake
\* phrase.
C3_CommitCancelsPartial ==
  (lastEv.kind = "commit" /\ lastEv.pending /\ lastEv.hit)
    => /\ ~partialWakeTimers.set
       /\ Len(wakes) > lastEv.nw
       /\ wakes[lastEv.nw + 1] = [at |-> lastEv.at, text |-> lastEv.text,
                                  via |-> "commit"]

\* a wake-matching commit found the timer pending and dispatched its text
C3_Witness ==
  /\ lastEv.kind = "commit" /\ lastEv.pending /\ lastEv.hit
  /\ lastEv.text = TextB
  /\ Len(wakes) = lastEv.nw + 1
  /\ wakes[Len(wakes)].text = TextB

\* C4: a committed wake-matching transcript dispatches a wake at once, with
\* its text, exactly when at least 8000 ms have passed since the last
\* dispatched wake (or there was none); the throttle window is counted from
\* the dispatch.
C4_CommitFiresIffWindowElapsed ==
  /\ (lastEv.kind = "commit" /\ lastEv.hit)
       => IF WindowElapsed
            THEN /\ Len(wakes) = lastEv.nw + 1
                 /\ wakes[lastEv.nw + 1] = [at |-> lastEv.at, text |-> lastEv.text,
                                            via |-> "commit"]
            ELSE Len(wakes) = lastEv.nw
  /\ Len(wakes) > 0 => lastWake = wakes[Len(wakes)].at

\* the example: commits at 0 and 9000 ms both dispatched
C4_Witness ==
  /\ Len(wakes) = 2
  /\ wakes[1] = [at |-> Epoch, text |-> TextA, via |-> "commit"]
  /\ wakes[2] = [at |-> Epoch + 9000, text |-> TextB, via |-> "commit"]
  /\ lastEv.kind = "commit" /\ lastEv.at = Epoch + 9000

-----------------------------------------------------------------------------
(* Properties of the audio relay (specification SpecAudio) *)

Range(q) == {q[k] : k \in 1..Len(q)}

-----------------------------------------------------------------------------
(* Properties of the agent turns (specification SpecAgent) *)

ProcIds == 1..Len(procs)

\* every wait still pending is the one its agent will resolve: no sendText
\* has taken over the resolver of an earlier wait
NoWaitOverwritten ==
  \A i \in ProcIds :
    procs[i].pc = "wait" => agents[procs[i].agent].pendingResolve = i

\* C6: a wait that ends by its own 15 s timeout resolves to null, never to
\* the delta fragments accumulated so far.
C6_TimeoutIsNull ==
  \A i \in ProcIds :
    (procs[i].how = "timeout" /\ procs[i].byTimer = i) => procs[i].result = Null

\* C7: a wait resolved by a stop fragment resolves to the concatenation, in
\* arrival order, of the delta texts received since the most recent start.
C7_ReplyIsConcatenation ==
  \A i \in ProcIds :
    (procs[i].how = "stop" /\ procs[i].hadStart)
      => procs[i].result = procs[i].streamed

\* C8: a sendText issued while an earlier wait is pending leaves that wait
\* intact: the step that writes the new user turn does not reset the reply
\* buffer, and the earlier wait keeps its resolver (so it can still resolve,
\* with its reply or with null at its own deadline).
C8_SecondSendKeepsFirstWait ==
  [][\A a \in AgentIds :
       LET w == agents[a].pendingResolve
           o == agents'[a].out
       IN  (/\ w # 0
            /\ Len(o) > Len(agents[a].out)
            /\ o[Len(o)].type = "user_message")
             => /\ agents'[a].responseBuffer = agents[a].responseBuffer
                /\ procs'[w].pc = "wait" => agents'[a].pendingResolve = w]_vars

\* C9: a wait is resolved by timeout only by its own timer, 15 s after its
\* own user turn was sent.  Stated for runs in which no wait was overwritten.
C9_OwnTimerOnly ==
  NoWaitOverwritten
    => \A i \in ProcIds :
         procs[i].how = "timeout"
           => /\ procs[i].byTimer = i
              /\ now >= procs[i].sentAt + AgentWaitMs

\* C10: the reply that resolves the wait of a turn is the agent's reply to
\* that turn.  Stated for runs in which no wait was overwritten.
C10_ReplyToOwnTurn ==
  NoWaitOverwritten
    => \A i \in ProcIds :
         procs[i].how \in {"stop", "agent_response"} => procs[i].replyTurn = i

\* C11: the step in which a 15 s timer resolves a wait leaves the agent
\* connection open and ready; and once a wait has timed out, the stop
\* fragment of a non-empty reply that arrives while no wait is pending makes
\* exactly one call of the subsequent-response callback.
C11_LateReplyToCallback ==
  [][\A a \in AgentIds :
       /\ (\E i \in ProcIds : /\ procs[i].agent = a
                              /\ procs[i].how # "timeout"
                              /\ procs'[i].how = "timeout")
            => /\ agents'[a].ws = agents[a].ws
               /\ agents'[a].ready = agents[a].ready
               /\ agents'[a].connectedPromise = agents[a].connectedPromise
       /\ (/\ stream[a].open /\ ~stream'[a].open
           /\ stream[a].text # ""
           /\ agents[a].pendingResolve = 0
           /\ \E i \in ProcIds : procs[i].agent = a /\ procs[i].how = "timeout")
            => Len(subsequent') = Len(subsequent) + 1]_vars

-----------------------------------------------------------------------------
(* Properties of the connections' life (specification SpecLife) *)

\* the agent connections being established or open
LiveAgents == {a \in AgentIds : agents[a].ws \in {"connecting", "open"}}

\* C12: a call has at most one live Agent connection in every reachable
\* state, and until the media stream has ended every wake reuses the agent
\* the first wake created.
C12_OneLiveAgent ==
  /\ Cardinality(LiveAgents) <= 1
  /\ media # "closed" => Len(agents) <= 1

\* C17: once the call's media stream has ended, neither the speech
\* recognition connection nor an agent connection of the call is open.
C17_ClosedAtStreamEnd ==
  media = "closed"
    => /\ eleven.ws # "open"
       /\ \A a \in AgentIds : agents[a].ws # "open"

-----------------------------------------------------------------------------
(* More properties of the audio relay (specification SpecAudio) *)

\* C18: the pending queue holds frames only while a connection is being
\* established: a closed (or never opened) connection has an empty queue,
\* whatever frames sendAudio was given since.
C18_QueueOnlyWhileConnecting ==
  eleven.pending # <<>> => eleven.ws = "connecting"

-----------------------------------------------------------------------------
(* Properties of the playback (specifications SpecTts and SpecBlob) *)

\* the three tiers, in the order of the fallback protocol
TierChain == <<"conference", "participant", "twiml">>

\* the attempts of invocation k follow chain from its first tier on, each
\* after the failure of the one before, and none after a success
AttemptsFollow(k, chain) ==
  LET at == tts[k].attempts IN
  /\ Len(at) <= Len(chain)
  /\ \A j \in 1..Len(at) :
       /\ at[j].tier = chain[j]
       /\ j > 1 => at[j - 1].result = "failed"

\* C13 as claimed: every invocation attempts the conference-wide
\* announcement first, the participant-scoped one only after that failed,
\* the TwiML fallback only after the participant-scoped one failed, and
\* nothing after a success.
C13_Claimed == \A k \in TtsIds : AttemptsFollow(k, TierChain)

\* C13 amended: so it is when a conference identifier is known (cached or
\* resolved by the lookup); when none is known the two announcement tiers
\* are skipped and the TwiML fallback is the only tier attempted.
C13_TiersInOrder ==
  \A k \in TtsIds :
    IF tts[k].confSid # Null
      THEN AttemptsFollow(k, TierChain)
      ELSE AttemptsFollow(k, <<"twiml">>)

\* both announcements failed and the TwiML fallback then succeeded
C13_Witness ==
  \E k \in TtsIds :
    tts[k].attempts = <<[tier |-> "conference", result |-> "failed"],
                        [tier |-> "participant", result |-> "failed"],
                        [tier |-> "twiml", result |-> "ok"]>>

\* C14: respondWithTts rejects only when all three tiers have been attempted
\* and have failed.
C14_RejectsOnlyWhenExhausted ==
  \A k \in TtsIds :
    tts[k].outcome = "rejected"
      => /\ Len(tts[k].attempts) = Len(TierChain)
         /\ \A j \in 1..Len(TierChain) :
              tts[k].attempts[j] = [tier |-> TierChain[j], result |-> "failed"]

\* C15: an invocation made while the registry has no entry for the call, or
\* with no base playback URL configured, is a no-op: no synthesis, no blob,
\* no control-plane request, and it completes without error.
C15_NoMetaOrNoUrlSkips ==
  \A k \in TtsIds :
    (~tts[k].hadMeta \/ ~env.PUBLIC_BASE_URL)
      => /\ tts[k].synth = "none"
         /\ tts[k].id = <<>>
         /\ tts[k].pc = "done"
         /\ tts[k].attempts = <<>>
         /\ tts[k].outcome = "skipped"

\* the blob stored by invocation k, if it is in the store
BlobOf(k) == {b \in audioStore : b.id = tts[k].id}

\* C16: a stored blob is in the store, with the synthesized bytes, until its
\* retention period has elapsed and not after, whatever became of the
\* playback; a retrieval before the period's end returns those bytes, a
\* retrieval after it reports not-found.
C16_BlobRetention ==
  \A k \in TtsIds :
    tts[k].id # <<>>
      => /\ BlobOf(k) # {} => /\ BlobOf(k) = {[id |-> tts[k].id,
                                               bytes |-> synthBytes(tts[k].text)]}
                              /\ now <= tts[k].storedAt + RetentionMs
         /\ BlobOf(k) = {} => now >= tts[k].storedAt + RetentionMs
         /\ lastGet.key = tts[k].id
              => /\ lastGet.at < tts[k].storedAt + RetentionMs
                      => /\ lastGet.status = 200
                         /\ lastGet.bytes = synthBytes(tts[k].text)
                 /\ lastGet.at > tts[k].storedAt + RetentionMs
                      => lastGet.status = 404

\* a blob that was never played, retrieved within its retention period and
\* gone after it
C16_Witness ==
  \E k \in TtsIds :
    /\ tts[k].id # <<>>
    /\ tts[k].outcome = "rejected"
    /\ lastGet = [key |-> tts[k].id, at |-> tts[k].storedAt + RetentionMs \div 2,
                  status |-> 200, bytes |-> synthBytes(tts[k].text)]
    /\ now > tts[k].storedAt + RetentionMs
    /\ BlobOf(k) = {}

-----------------------------------------------------------------------------
(* Properties of the registry (specification SpecMeta) *)

\* C19: every write to the call's registry entry merges into it or creates
\* it: the entry exists afterwards, and the fields the write does not name
\* keep the values they had, so that no other handler's update is lost.
C19_WritesMerge ==
  [][callMeta' # callMeta
       => /\ callMeta'.has
          /\ callMeta.has
               => \A f \in MetaFields \ lastMetaWrite'.fields :
                    callMeta'[f] = callMeta[f]]_vars

-----------------------------------------------------------------------------
(* Properties of the transcript classifier (specification SpecStt) *)

\* the wake phrases as configured: the list, or else the single default
ConfiguredPhrases == IF WAKE_PHRASES # <<>> THEN WAKE_PHRASES ELSE <<WAKE_PHRASE>>

\* text contains a configured phrase as a substring, letter case ignored
ContainsWakePhrase(text) ==
  \E n \in 1..Len(ConfiguredPhrases) :
    LET phrase == ConfiguredPhrases[n] IN
    /\ phrase # <<>>
    /\ \E k \in 0..(Len(text) - Len(phrase)) :
         \A j \in 1..Len(phrase) : Lower(text[k + j]) = Lower(phrase[j])

CommittedKinds == {"committed_transcript", "committed_transcript_with_timestamps"}

TranscriptKinds == CommittedKinds \cup {"partial_transcript"}

\* what the last message did with its text, and with an unparseable message
TextLogged ==
  /\ lastStt.text # <<>> => lastStt.transcript = <<lastStt.text>>
  /\ lastStt.type = Null
       => /\ lastStt.transcript = <<>> /\ lastStt.wake = <<>>
          /\ eleven.ws = "open" /\ eleven.ready

\* C20 as claimed: for every event with text, the text goes to the
\* transcript handler, and the wake handler is called exactly when the text
\* contains a configured wake phrase (case-insensitively), tagged committed
\* exactly for a committed transcript; an unparseable message calls neither.
C20_Claimed ==
  /\ TextLogged
  /\ lastStt.text # <<>>
       => /\ lastStt.wake # <<>> <=> ContainsWakePhrase(lastStt.text)
          /\ lastStt.wake # <<>>
               => lastStt.wake = <<[text |-> lastStt.text,
                                    isCommitted |-> lastStt.type \in CommittedKinds]>>

\* C20 amended: the wake handler is called exactly for a partial or
\* committed transcript whose text contains a configured wake phrase; an
\* event of any other kind never calls it.
C20_WakeIffTranscriptHit ==
  /\ TextLogged
  /\ lastStt.text # <<>>
       => /\ lastStt.wake # <<>>
               <=> (lastStt.type \in TranscriptKinds
                      /\ ContainsWakePhrase(lastStt.text))
          /\ lastStt.wake # <<>>
               => lastStt.wake = <<[text |-> lastStt.text,
                                    isCommitted |-> lastStt.type \in CommittedKinds]>>

\* a partial transcript holding the phrase in other letter case, inside a
\* longer text
C20_Witness ==
  /\ lastStt.type = "partial_transcript"
  /\ lastStt.text = TextB
  /\ lastStt.transcript = <<TextB>>
  /\ lastStt.wake = <<[text |-> TextB, isCommitted |-> FALSE]>>

-----------------------------------------------------------------------------
(* Properties of the agent connection's writes (specifications SpecLife and
   SpecConn) *)

\* the writes of agent a from position j on, up to the next socket
WritesOfSocket(a, j) ==
  LET out  == agents[a].out
      ends == {k \in (j + 1)..Len(out) : out[k].type = "socket"}
      last == IF ends = {} THEN Len(out)
              ELSE (CHOOSE k \in ends : \A m \in ends : k <= m) - 1
  IN  SubSeq(out, j + 1, last)

\* C21: on every agent connection the initialization data is the first
\* write, made when the connection opens: no user turn is written before it,
\* also on a connection that sendText had to open.
C21_InitDataFirst ==
  \A a \in AgentIds :
    LET out == agents[a].out IN
    /\ \A j \in 1..Len(out) :
         out[j].type = "socket"
           => LET w == WritesOfSocket(a, j)
              IN  /\ w # <<>> => w[1].type = "init"
                  /\ \A k \in 2..Len(w) : w[k].type # "init"
    /\ agents[a].ws = "open"
         => \E j \in 1..Len(out) :
              /\ out[j].type = "socket"
              /\ WritesOfSocket(a, j) # <<>>
              /\ \A k \in (j + 1)..Len(out) : out[k].type # "socket"

\* a first connection and one that the sendText of the second turn opened,
\* each begun with the initialization data
C21_Witness ==
  \E a \in AgentIds :
    agents[a].out = <<[type |-> "socket", turn |-> 0], [type |-> "init", turn |-> 0],
                      [type |-> "user_message", turn |-> 1],
                      [type |-> "socket", turn |-> 0], [type |-> "init", turn |-> 0],
                      [type |-> "user_message", turn |-> 2]>>

\* the event ids of the pongs agent a wrote, in order
RECURSIVE PongIds(_)
PongIds(out) ==
  IF out = <<>> THEN <<>>
  ELSE IF out[1].type = "pong" THEN <<out[1].turn>> \o PongIds(Tail(out))
       ELSE PongIds(Tail(out))

\* C22: every ping received on the agent connection has been answered, when
\* its handling step ends, with exactly one pong that carries the ping's
\* event id, whether or not a sendText wait is pending.
C22_PongPerPing ==
  \A a \in AgentIds : PongIds(agents[a].out) = agents[a].pings

\* two pings with different ids, received while the wait of the first turn
\* is pending, answered in the order of their arrival
C22_Witness ==
  \E a \in AgentIds :
    /\ agents[a].pings = <<9, 7>>
    /\ agents[a].pendingResolve # 0
    /\ agents[a].out = <<[type |-> "socket", turn |-> 0], [type |-> "init", turn |-> 0],
                         [type |-> "user_message", turn |-> 1],
                         [type |-> "pong", turn |-> 9], [type |-> "pong", turn |-> 7]>>

-----------------------------------------------------------------------------
(* Cancellation of the debounce timer (specification Spec) *)

\* the last transcript cancelled a pending debounce timer
CancelledTimer ==
  /\ lastEv.kind \in {"partial", "commit"}
  /\ lastEv.hit
  /\ lastEv.pending
  /\ WindowElapsed

\* C23: a debounce timer cancelled by a newer partial or by a committed
\* transcript dispatches nothing, also when the cancel arrives in the
\* millisecond the timer is due: after the cancel at most one wake follows,
\* the commit's own or the one of the newer partial's timer, and the latter
\* not earlier than 2500 ms after that partial.
C23_CancelledNeverFires ==
  CancelledTimer
    => /\ Len(wakes) <= lastEv.nw + 1
       /\ lastEv.kind = "commit"
            => /\ ~partialWakeTimers.set
               /\ Len(wakes) = lastEv.nw + 1
               /\ wakes[lastEv.nw + 1] = [at |-> lastEv.at, text |-> lastEv.text,
                                          via |-> "commit"]
       /\ lastEv.kind = "partial"
            => /\ partialWakeTimers.set
                    => /\ partialWakeTimers.due = lastEv.at + DebounceMs
                       /\ partialWakeTimers.text = lastEv.text
                       /\ Len(wakes) = lastEv.nw
               /\ Len(wakes) = lastEv.nw + 1
                    => wakes[lastEv.nw + 1] = [at |-> lastEv.at + DebounceMs,
                                               text |-> lastEv.text, via |-> "timer"]

\* a newer partial arrived in the millisecond the timer of the older one was
\* due; the only wake is the newer partial's, 2500 ms later
C23_Witness ==
  /\ lastEv.kind = "partial" /\ lastEv.pending
  /\ lastEv.due = lastEv.at
  /\ lastEv.text = TextB
  /\ wakes = <<[at |-> lastEv.at + DebounceMs, text |-> TextB, via |-> "timer"]>>

\* C25: while the debounce timer is pending the throttle window is not
\* active: at least 8000 ms have passed since the last dispatched wake, so
\* the timer's callback always finds the window elapsed and dispatches.
C25_NoTimerInsideWindow ==
  /\ partialWakeTimers.set => now - lastWake >= ThrottleMs
  /\ (partialWakeTimers.set /\ Len(wakes) > 0)
       => now - wakes[Len(wakes)].at >= ThrottleMs
  /\ \A k \in 2..Len(wakes) :
       wakes[k].via = "timer"
         => wakes[k].at - wakes[k - 1].at >= ThrottleMs + DebounceMs

\* a timer set when the window of the first wake had just elapsed, and its
\* dispatch 2500 ms later
C25_Witness ==
  /\ Len(wakes) = 2
  /\ wakes[2].via = "timer"
  /\ wakes[2].at - wakes[1].at = ThrottleMs + DebounceMs

-----------------------------------------------------------------------------
(* The end of the media stream and the debounce timer (specification
   SpecLife) *)

\* C24: once the call's media stream has closed, no step dispatches a wake
\* and no step creates or registers an agent client; a debounce timer that
\* was pending at the close dispatches nothing afterwards.
C24_NothingAfterClose ==
  [][media = "closed"
       => /\ wakes' = wakes
          /\ Len(agents') = Len(agents)
          /\ agentClients' = agentClients]_vars

-----------------------------------------------------------------------------
(* Delivery of one reply reported by both message kinds (specification
   SpecAgent) *)

Delivered == {"wait", "subsequent"}

\* C26: every reply of the agent is delivered at most once and to at most
\* one channel: a reply that the 'stop' of its streamed parts delivered (to
\* the waiting sendText or to the subsequent-response callback) is not
\* delivered again when the agent also reports it as a whole agent_response.
C26_DeliveredAtMostOnce ==
  \A a \in AgentIds :
    ~(stream[a].last.to \in Delivered /\ stream[a].last.again \in Delivered)

====
